---- MODULE Spec2Model ----
(***************************************************************************)
(* The canvas synchronization core of src/components/Canvas.tsx (the       *)
(* drag-to-paint component, lines 310-1030): the Cell Store `pixels`, the  *)
(* energy budget, the per-stroke painted set, the optimistic write with    *)
(* its upsert, the change-feed handler with its asynchronous profile       *)
(* lookup, and hydration by loadPixels.                                    *)
(*                                                                         *)
(* React state is modelled as two layers.  A state updater given as a      *)
(* function (setEnergy(prev => ...)) is applied to the latest value; a     *)
(* plain read inside a handler (energy, paintedThisStroke) reads the value *)
(* captured by the last render.  energy / paintedThisStroke hold the       *)
(* latest values and rEnergy / rPainted the values of the last render.     *)
(* Pointer-move events are continuous events whose updates are rendered    *)
(* by a scheduled task (action Render); mouse-down and mouse-up are        *)
(* discrete events whose own updates are rendered before the next event.   *)
(* zoom, pan, didDrag, recentColors, selectedPixel and the touch           *)
(* bookkeeping are presentation state and are not part of the model.       *)
(***************************************************************************)
EXTENDS Integers, Sequences, FiniteSets, TLC

\* ---- program constants -------------------------------------------------
CANVAS_SIZE == 1000
MAX_ENERGY == 20
ENERGY_REGEN_MS == 2000
\* initial zoom: the canvas element is CANVAS_SIZE * Zoom CSS pixels wide
Zoom == 10

\* ---- bounds of the model ------------------------------------------------
\* admitted paints in one run of the session alone
MaxPaints == 3
\* regeneration timer ticks in one run of the session alone
MaxTicks == 3
\* admitted paints, writes of other actors and ticks, together, in one run of
\* the whole component
MaxEvents == 2

\* ---- inputs --------------------------------------------------------------
\* pointer positions relative to the canvas rectangle (clientX - rect.left,
\* clientY - rect.top): cells (0,0) and (1,0), one position left of the
\* canvas and one below its last row
Pointers == { <<5, 5>>, <<15, 5>>, <<-1, 5>>, <<5, 10000>> }
\* coordinates written by other actors: one shared cell, one outside the grid
RemoteCoords == { <<0, 0>>, <<1000, 0>> }
NoUser == "none"
Me == "me"
Other == "u2"
\* the selected color of the local actor (the initial selectedColor)
LocalColor == "#000000"
\* the colors the actor selects among (two of PRESET_COLORS)
Colors == { "#000000", "#FF0000" }
\* the other actors: one with a profile, one anonymous, painting different colors
RemoteWriters == { [ user |-> Other, color |-> "#FF0000" ],
                   [ user |-> NoUser, color |-> "#0000FF" ] }
NoName == "-"

Min(a, b) == IF a < b THEN a ELSE b
Max(a, b) == IF a > b THEN a ELSE b

VARIABLES
    pixels,          \* Cell Store: Map key -> Pixel (latest value)
    energy,          \* latest token count
    rEnergy,         \* token count captured by the last render
    paintedThisStroke, \* latest painted set of the stroke
    rPainted,        \* painted set captured by the last render
    isDrawing,
    isPanning,
    userProfile,     \* id of the local profile, or NoUser
    now,             \* local clock read by new Date()
    store,           \* external store: table pixels, key (x,y) -> row
    inflight,        \* upsert requests sent and not yet completed
    feed,            \* change events emitted and not yet delivered
    lookups,         \* change-feed handlers waiting for their profile lookup
    load,            \* loadPixels: "sent", "read", "done"
    snapshot,        \* rows read by the snapshot query
    admitted,        \* history: number of admitted paints
    ticks,           \* history: number of regeneration ticks
    remotes,         \* history: number of writes by other actors
    energy0,         \* history: tokens at the start of the run
    refillFrom,      \* history: tokens left by the last admitted paint
    refillTicks,     \* history: ticks since the last admitted paint
    lastRecv,        \* history: per key, the last event received since the
                     \* cell was last written by hydration or a local paint
    selectedColor,   \* the color selected in the palette
    clock,           \* ms since mount
    nextTick,        \* instant (ms since mount) of the next interval callback
    mounted,         \* the component is mounted
    pendingPixel,    \* click-to-place: the clicked coordinate, or << >>
    placedPending    \* history: placements made for the pending pixel

vars == << pixels, energy, rEnergy, paintedThisStroke, rPainted, isDrawing,
           isPanning, userProfile, now, store, inflight, feed, lookups, load,
           snapshot, admitted, ticks, remotes, energy0, refillFrom,
           refillTicks, lastRecv, selectedColor, clock, nextTick, mounted,
           pendingPixel, placedPending >>

uiVars == << energy, rEnergy, paintedThisStroke, rPainted, isDrawing, isPanning >>
netVars == << store, inflight, feed, lookups, load, snapshot >>
budgetHist == << energy0, refillFrom, refillTicks >>
timerVars == << clock, nextTick >>
extVars == << selectedColor, mounted, pendingPixel, placedPending >>

\* ---- pure helpers ----------------------------------------------------------
\* `${x},${y}`: the Map key of a coordinate
Key(x, y) == << x, y >>

\* Map.set on a copy of the map
MapSet(m, k, v) == [ j \in (DOMAIN m) \cup {k} |-> IF j = k THEN v ELSE m[j] ]

MapRemove(m, k) == [ j \in (DOMAIN m) \ {k} |-> m[j] ]

EmptyMap == [ j \in {} |-> 0 ]

\* getBoundingClientRect().width of the canvas under transform scale(zoom)
RectWidth == CANVAS_SIZE * Zoom

\* variant: the upper bound of the grid taken inclusively
InRangeInclusive(x, y) == x >= 0 /\ x <= CANVAS_SIZE /\ y >= 0 /\ y <= CANVAS_SIZE

InRange(x, y) == x >= 0 /\ x < CANVAS_SIZE /\ y >= 0 /\ y < CANVAS_SIZE

\* getPixelCoords: floor((client - rect.origin) * (CANVAS_SIZE / rect.size)),
\* null (here << >>) outside the grid
PixelX(p) == (p[1] * CANVAS_SIZE) \div RectWidth
PixelY(p) == (p[2] * CANVAS_SIZE) \div RectWidth
getPixelCoords(p) ==
    IF InRange(PixelX(p), PixelY(p)) THEN << PixelX(p), PixelY(p) >> ELSE << >>

\* username joined from user_profiles (pixels.user_id REFERENCES user_profiles)
UserName(u) == IF u = NoUser THEN NoName ELSE u

\* new Date().toISOString() of the local machine and of another actor's
\* machine: the two clocks are unrelated
LocalTime(t) == << "local", t >>
RemoteTime(t) == << "remote", t >>

Pixel(x, y, color, at, user, name) ==
    [ x |-> x, y |-> y, color |-> color, placed_at |-> at, user_id |-> user,
      username |-> name ]

\* ---- initial state ---------------------------------------------------------
Init ==
    /\ pixels = EmptyMap
    /\ energy = MAX_ENERGY
    /\ rEnergy = MAX_ENERGY
    /\ paintedThisStroke = {}
    /\ rPainted = {}
    /\ isDrawing = FALSE
    /\ isPanning = FALSE
    /\ userProfile \in { NoUser, Me }
    /\ now = 1
    /\ store = EmptyMap
    /\ inflight = {}
    /\ feed = << >>
    /\ lookups = {}
    /\ load = "sent"
    /\ snapshot = EmptyMap
    /\ admitted = 0
    /\ ticks = 0
    /\ remotes = 0
    /\ energy0 = MAX_ENERGY
    /\ refillFrom = MAX_ENERGY
    /\ refillTicks = 0
    /\ lastRecv = EmptyMap
    /\ selectedColor = LocalColor
    /\ clock = 0
    /\ nextTick = ENERGY_REGEN_MS
    /\ mounted = TRUE
    /\ pendingPixel = << >>
    /\ placedPending = 0

\* ---- budget -----------------------------------------------------------------
\* variant: regeneration without the cap
RegenerateUncapped(e) == e + 1

\* variant: the interval callback sets the tokens to the value it was given
RegenerateNothing(e) == Min(e, MAX_ENERGY)

\* setEnergy(prev => Math.min(prev + 1, MAX_ENERGY))
Regenerate(e) == Min(e + 1, MAX_ENERGY)

\* variant: consumption without the floor at 0
ConsumeUnfloored(e) == e - 1

\* setEnergy(prev => Math.max(0, prev - 1))
Consume(e) == Max(0, e - 1)

\* variant: the callback computes from the tokens its closure saw at the last
\* render, setEnergy(Math.min(energy + 1, MAX_ENERGY))
TickFromRender ==
    /\ mounted
    /\ energy' = Regenerate(rEnergy)
    /\ ticks' = ticks + 1
    /\ refillTicks' = refillTicks + 1
    /\ UNCHANGED << pixels, rEnergy, paintedThisStroke, rPainted, isDrawing,
                    isPanning, userProfile, now, admitted, remotes, energy0,
                    refillFrom, lastRecv >>
    /\ UNCHANGED netVars
    /\ clock' = nextTick
    /\ nextTick' = nextTick + ENERGY_REGEN_MS
    /\ UNCHANGED extVars

\* the setInterval callback of the regeneration effect
Tick ==
    /\ mounted
    /\ energy' = Regenerate(energy)
    /\ ticks' = ticks + 1
    /\ refillTicks' = refillTicks + 1
    /\ UNCHANGED << pixels, rEnergy, paintedThisStroke, rPainted, isDrawing,
                    isPanning, userProfile, now, admitted, remotes, energy0,
                    refillFrom, lastRecv >>
    /\ UNCHANGED netVars
    /\ clock' = nextTick
    /\ nextTick' = nextTick + ENERGY_REGEN_MS
    /\ UNCHANGED extVars

\* a render of the component: handlers created by it read the latest state
Render ==
    /\ mounted
    /\ << rEnergy, rPainted >> # << energy, paintedThisStroke >>
    /\ rEnergy' = energy
    /\ rPainted' = paintedThisStroke
    /\ UNCHANGED << pixels, energy, paintedThisStroke, isDrawing, isPanning,
                    userProfile, now, admitted, ticks, remotes, lastRecv >>
    /\ UNCHANGED budgetHist
    /\ UNCHANGED netVars
    /\ UNCHANGED timerVars
    /\ UNCHANGED extVars

\* variant: a paint waits for the upserts still in flight
PaintGuardBlocking(k) == ~(k \in rPainted) /\ ~(rEnergy < 1) /\ inflight = {}

\* ---- painting ---------------------------------------------------------------
\* the guard of paintPixel, on the values of the last render
PaintGuard(k) == ~(k \in rPainted) /\ ~(rEnergy < 1)

\* variant: the upsert leaves the color out and the table's default is stored
UpsertRowNoColor(x, y) == Pixel(x, y, "#FFFFFF", LocalTime(now), userProfile, NoName)

\* variant: the upsert leaves user_id out
UpsertRowAnonymous(x, y) == Pixel(x, y, selectedColor, LocalTime(now), NoUser, NoName)

\* the row sent by the upsert of paintPixel
UpsertRow(x, y) == Pixel(x, y, selectedColor, LocalTime(now), userProfile, NoName)

\* variant: the regeneration effect depends on the tokens, so that a paint
\* clears the interval and starts a new one
TimerRestarted == clock + ENERGY_REGEN_MS

\* the interval is created once, at mount (dependency list []), and nothing
\* a paint does touches it
TimerAfterPaint == nextTick

\* variant: the upsert is sent and the Cell Store is left for the echo to update
PaintDispatchOnly(x, y) ==
    /\ paintedThisStroke' = paintedThisStroke \cup { Key(x, y) }
    /\ energy' = Consume(energy)
    /\ inflight' = inflight \cup { UpsertRow(x, y) }
    /\ now' = now + 1
    /\ admitted' = admitted + 1
    /\ refillFrom' = energy'
    /\ refillTicks' = 0
    /\ UNCHANGED << pixels, rEnergy, rPainted, isDrawing, isPanning, userProfile,
                    store, feed, lookups, load, snapshot, ticks, remotes,
                    energy0, lastRecv >>
    /\ nextTick' = TimerAfterPaint
    /\ UNCHANGED clock
    /\ UNCHANGED extVars

\* paintPixel(x, y) once its guard has passed
PaintAdmitted(x, y) ==
    /\ pixels' = MapSet(pixels, Key(x, y),
                        Pixel(x, y, selectedColor, LocalTime(now), userProfile,
                              UserName(userProfile)))
    /\ paintedThisStroke' = paintedThisStroke \cup { Key(x, y) }
    /\ energy' = Consume(energy)
    /\ inflight' = inflight \cup { UpsertRow(x, y) }
    /\ now' = now + 1
    /\ admitted' = admitted + 1
    /\ refillFrom' = energy'
    /\ refillTicks' = 0
    /\ lastRecv' = MapRemove(lastRecv, Key(x, y))
    /\ UNCHANGED << rEnergy, rPainted, isDrawing, isPanning, userProfile,
                    store, feed, lookups, load, snapshot, ticks, remotes,
                    energy0 >>
    /\ nextTick' = TimerAfterPaint
    /\ UNCHANGED clock
    /\ UNCHANGED extVars

paintPixel(x, y) ==
    IF PaintGuard(Key(x, y)) THEN PaintAdmitted(x, y) ELSE UNCHANGED vars

\* handleMouseDown: right button or Ctrl/Cmd = pan; Alt = inspect, which reads
\* pixels.get(key) into selectedPixel (a field no other handler reads, left
\* out of the state); otherwise draw
handleMouseDown(mode) ==
    /\ IF mode = "pan"
       THEN /\ isPanning' = TRUE
            /\ UNCHANGED << isDrawing, paintedThisStroke, rPainted >>
       ELSE IF mode = "inspect"
       THEN UNCHANGED << isPanning, isDrawing, paintedThisStroke, rPainted >>
       ELSE /\ isDrawing' = TRUE
            /\ paintedThisStroke' = {}
            /\ rPainted' = {}
            /\ UNCHANGED isPanning
    /\ UNCHANGED << pixels, energy, rEnergy, userProfile, now, admitted, ticks,
                    remotes, lastRecv >>
    /\ UNCHANGED budgetHist
    /\ UNCHANGED netVars
    /\ UNCHANGED timerVars
    /\ UNCHANGED extVars

\* variant: the pan branch is not tested first
handleMouseMoveWhilePanning(p) ==
    IF isDrawing /\ getPixelCoords(p) # << >>
    THEN paintPixel(getPixelCoords(p)[1], getPixelCoords(p)[2])
    ELSE UNCHANGED vars

handleMouseMove(p) ==
    IF isPanning
    THEN UNCHANGED vars
    ELSE IF isDrawing /\ getPixelCoords(p) # << >>
         THEN paintPixel(getPixelCoords(p)[1], getPixelCoords(p)[2])
         ELSE UNCHANGED vars

\* variant: the end of a stroke keeps its painted set
handleMouseUpKeepsStroke ==
    /\ isPanning' = FALSE
    /\ isDrawing' = FALSE
    /\ UNCHANGED << pixels, energy, rEnergy, paintedThisStroke, rPainted,
                    userProfile, now, admitted, ticks, remotes, lastRecv >>
    /\ UNCHANGED budgetHist
    /\ UNCHANGED netVars
    /\ UNCHANGED timerVars
    /\ UNCHANGED extVars

\* variant: the end of a stroke cancels the upserts still in flight
handleMouseUpCancelsUpserts ==
    /\ isPanning' = FALSE
    /\ isDrawing' = FALSE
    /\ paintedThisStroke' = {}
    /\ rPainted' = {}
    /\ inflight' = {}
    /\ UNCHANGED << pixels, energy, rEnergy, userProfile, now, admitted, ticks,
                    remotes, lastRecv, store, feed, lookups, load, snapshot >>
    /\ UNCHANGED budgetHist
    /\ UNCHANGED timerVars
    /\ UNCHANGED extVars

handleMouseUp ==
    /\ isPanning' = FALSE
    /\ isDrawing' = FALSE
    /\ paintedThisStroke' = {}
    /\ rPainted' = {}
    /\ UNCHANGED << pixels, energy, rEnergy, userProfile, now, admitted, ticks,
                    remotes, lastRecv >>
    /\ UNCHANGED budgetHist
    /\ UNCHANGED netVars
    /\ UNCHANGED timerVars
    /\ UNCHANGED extVars

MouseDown == \E mode \in { "pan", "inspect", "draw" } : handleMouseDown(mode)
MouseMove == \E p \in Pointers : handleMouseMove(p)
MouseUp == handleMouseUp

\* ---- external store and change feed ------------------------------------------
\* upsert ... onConflict 'x,y': the row replaces the row of the same key, and
\* the table publishes INSERT or UPDATE with the new row
StoreAccept(row) ==
    /\ store' = MapSet(store, Key(row.x, row.y), row)
    /\ feed' = Append(feed,
                      [ eventType |-> IF Key(row.x, row.y) \in DOMAIN store
                                      THEN "UPDATE" ELSE "INSERT",
                        new |-> row ])

\* the upsert of an admitted paint reaches the store and is accepted
UpsertAck ==
    \E r \in inflight :
        /\ StoreAccept(r)
        /\ inflight' = inflight \ { r }
        /\ UNCHANGED << pixels, userProfile, now, lookups, load, snapshot,
                        admitted, ticks, remotes, lastRecv >>
        /\ UNCHANGED budgetHist
        /\ UNCHANGED uiVars
        /\ UNCHANGED timerVars
        /\ UNCHANGED extVars

\* variant: a failed upsert gives the token back
UpsertFailRefund ==
    \E r \in inflight :
        /\ inflight' = inflight \ { r }
        /\ energy' = Regenerate(energy)
        /\ UNCHANGED << pixels, userProfile, now, store, feed, lookups, load,
                        snapshot, admitted, ticks, remotes, lastRecv >>
        /\ UNCHANGED budgetHist
        /\ UNCHANGED << rEnergy, paintedThisStroke, rPainted, isDrawing, isPanning >>
        /\ UNCHANGED timerVars
        /\ UNCHANGED extVars

\* the upsert fails (network or store error); paintPixel ignores the result
UpsertFail ==
    \E r \in inflight :
        /\ inflight' = inflight \ { r }
        /\ UNCHANGED << pixels, userProfile, now, store, feed, lookups, load,
                        snapshot, admitted, ticks, remotes, lastRecv >>
        /\ UNCHANGED budgetHist
        /\ UNCHANGED uiVars
        /\ UNCHANGED timerVars
        /\ UNCHANGED extVars

\* another actor's upsert is accepted by the store
RemoteWrite ==
    \E c \in RemoteCoords, w \in RemoteWriters :
        /\ StoreAccept(Pixel(c[1], c[2], w.color, RemoteTime(remotes + 1), w.user,
                              NoName))
        /\ remotes' = remotes + 1
        /\ UNCHANGED << pixels, userProfile, now, inflight, lookups, load,
                        snapshot, admitted, ticks, lastRecv >>
        /\ UNCHANGED budgetHist
        /\ UNCHANGED uiVars
        /\ UNCHANGED timerVars
        /\ UNCHANGED extVars

\* the cell a change event is about: payload.new of INSERT and UPDATE,
\* payload.old of DELETE
EventKey(ev) ==
    IF ev.eventType = "DELETE" THEN Key(ev.old.x, ev.old.y)
    ELSE Key(ev.new.x, ev.new.y)

\* events of one key are delivered in the order the store accepted them
Deliverable(i) ==
    /\ i \in DOMAIN feed
    /\ \A j \in 1..(i - 1) : EventKey(feed[j]) # EventKey(feed[i])

RemoveAt(q, i) == [ j \in 1..(Len(q) - 1) |-> IF j < i THEN q[j] ELSE q[j + 1] ]

\* variant: the updater sets the record on a new Map() instead of a copy of prev
PutPixelFresh(m, pixelData) == MapSet(EmptyMap, Key(pixelData.x, pixelData.y), pixelData)

\* variant: the key is built as `${pixel.y},${pixel.x}`
PutPixelSwapped(m, pixelData) == MapSet(m, Key(pixelData.y, pixelData.x), pixelData)

\* setPixels(prev => new Map(prev).set(`${pixel.x},${pixel.y}`, pixelData))
PutPixel(m, pixelData) == MapSet(m, Key(pixelData.x, pixelData.y), pixelData)

\* setPixels called by an asynchronous continuation: React drops a state
\* update of a component that is no longer mounted
SetPixels(next) == IF mounted THEN next ELSE pixels

\* variant: the handler also applies DELETE, removing the record of the cell
onChangeAppliesDelete(ev) ==
    IF ev.eventType \in { "INSERT", "UPDATE" }
    THEN IF ev.new.user_id # NoUser
         THEN /\ lookups' = lookups \cup { ev.new }
              /\ UNCHANGED pixels
         ELSE /\ pixels' = SetPixels(PutPixel(pixels, ev.new))
              /\ UNCHANGED lookups
    ELSE /\ pixels' = SetPixels(MapRemove(pixels, EventKey(ev)))
         /\ UNCHANGED lookups

\* the postgres_changes callback up to its await: an event that carries a
\* user_id waits for the profile lookup, any other is put at once
onChange(ev) ==
    IF ev.eventType \in { "INSERT", "UPDATE" }
    THEN IF ev.new.user_id # NoUser
         THEN /\ lookups' = lookups \cup { ev.new }
              /\ UNCHANGED pixels
         ELSE /\ pixels' = SetPixels(PutPixel(pixels, ev.new))
              /\ UNCHANGED lookups
    ELSE UNCHANGED << pixels, lookups >>

Deliver ==
    \E i \in DOMAIN feed :
        /\ Deliverable(i)
        /\ onChange(feed[i])
        /\ feed' = RemoveAt(feed, i)
        /\ lastRecv' = IF feed[i].eventType \in { "INSERT", "UPDATE" }
                       THEN PutPixel(lastRecv, feed[i].new)
                       ELSE lastRecv
        /\ UNCHANGED << userProfile, now, store, inflight, load, snapshot,
                        admitted, ticks, remotes >>
        /\ UNCHANGED budgetHist
        /\ UNCHANGED uiVars
        /\ UNCHANGED timerVars
        /\ UNCHANGED extVars

\* the profile lookup of a waiting handler resolves, with or without a profile,
\* and the handler puts its pixelData
LookupResolve ==
    \E l \in lookups, found \in BOOLEAN :
        /\ pixels' = SetPixels(PutPixel(pixels,
                                        IF found
                                        THEN [ l EXCEPT !.username = UserName(l.user_id) ]
                                        ELSE l))
        /\ lookups' = lookups \ { l }
        /\ UNCHANGED << userProfile, now, store, inflight, feed, load, snapshot,
                        admitted, ticks, remotes, lastRecv >>
        /\ UNCHANGED budgetHist
        /\ UNCHANGED uiVars
        /\ UNCHANGED timerVars
        /\ UNCHANGED extVars

\* ---- hydration ----------------------------------------------------------------
\* the snapshot query of loadPixels is evaluated by the store
LoadQuery ==
    /\ load = "sent"
    /\ load' = "read"
    /\ snapshot' = store
    /\ UNCHANGED << pixels, userProfile, now, store, inflight, feed, lookups,
                    admitted, ticks, remotes, lastRecv >>
    /\ UNCHANGED budgetHist
    /\ UNCHANGED uiVars
    /\ UNCHANGED timerVars
    /\ UNCHANGED extVars

\* variant: the snapshot query joins user_profiles as an inner join, which
\* leaves out the rows of anonymous actors
HydratedProfiledOnly(rows) ==
    LET data == { rows[j] : j \in DOMAIN rows }
        kept == { row \in data : row.user_id # NoUser }
    IN  [ k \in { Key(row.x, row.y) : row \in kept } |->
            LET pixel == CHOOSE row \in kept : Key(row.x, row.y) = k
            IN  [ pixel EXCEPT !.username = UserName(pixel.user_id) ] ]

\* the rows of the snapshot, each flattened with its joined profile
Hydrated(rows) ==
    LET data == { rows[j] : j \in DOMAIN rows }
    IN  [ k \in { Key(row.x, row.y) : row \in data } |->
            LET pixel == CHOOSE row \in data : Key(row.x, row.y) = k
            IN  [ pixel EXCEPT !.username = UserName(pixel.user_id) ] ]

\* loadPixels after its await: setPixels(pixelMap) when data is not null
LoadResolve ==
    \E ok \in BOOLEAN :
        /\ load = "read"
        /\ load' = "done"
        /\ pixels' = IF ok THEN SetPixels(Hydrated(snapshot)) ELSE pixels
        /\ snapshot' = EmptyMap
        /\ lastRecv' = IF ok THEN EmptyMap ELSE lastRecv
        /\ UNCHANGED << userProfile, now, store, inflight, feed, lookups,
                        admitted, ticks, remotes >>
        /\ UNCHANGED budgetHist
        /\ UNCHANGED uiVars
        /\ UNCHANGED timerVars
        /\ UNCHANGED extVars

\* ---- specifications ------------------------------------------------------------
\* The whole component.  A run is bounded by the number of admitted paints,
\* writes of other actors and ticks it holds; a rejected paint attempt is never
\* bounded.
Events == admitted + remotes + ticks

BoundedTick == Tick /\ Events' <= MaxEvents
BoundedMouseMove == MouseMove /\ Events' <= MaxEvents
BoundedRemoteWrite == RemoteWrite /\ Events' <= MaxEvents

Next ==
    \/ BoundedTick \/ Render \/ MouseDown \/ BoundedMouseMove \/ MouseUp
    \/ UpsertAck \/ UpsertFail \/ BoundedRemoteWrite \/ Deliver \/ LookupResolve
    \/ LoadQuery \/ LoadResolve

Spec == Init /\ [][Next]_vars

\* The session alone, its upserts still in flight: budget and stroke.
SessionTick == Tick /\ ticks' <= MaxTicks
SessionMouseMove == MouseMove /\ admitted' <= MaxPaints

NextSession == SessionTick \/ Render \/ MouseDown \/ SessionMouseMove \/ MouseUp

\* a session that has already spent tokens
InitSpent ==
    /\ energy \in 0..MAX_ENERGY
    /\ rEnergy = energy
    /\ pixels = EmptyMap
    /\ paintedThisStroke = {}
    /\ rPainted = {}
    /\ isDrawing = FALSE
    /\ isPanning = FALSE
    /\ userProfile \in { NoUser, Me }
    /\ now = 1
    /\ store = EmptyMap
    /\ inflight = {}
    /\ feed = << >>
    /\ lookups = {}
    /\ load = "done"
    /\ snapshot = EmptyMap
    /\ admitted = 0
    /\ ticks = 0
    /\ remotes = 0
    /\ energy0 = energy
    /\ refillFrom = energy
    /\ refillTicks = 0
    /\ lastRecv = EmptyMap
    /\ selectedColor = LocalColor
    /\ clock = 0
    /\ nextTick = ENERGY_REGEN_MS
    /\ mounted = TRUE
    /\ pendingPixel = << >>
    /\ placedPending = 0

SpecSession == InitSpent /\ [][NextSession]_vars

\* ==== properties ================================================================
\* the fields of a cell record that a change event carries
Carried(r) == [ x |-> r.x, y |-> r.y, color |-> r.color, placed_at |-> r.placed_at,
                user_id |-> r.user_id ]

KeyOf(r) == Key(r.x, r.y)

\* no handler of an event for key k is still waiting for its profile lookup
HandledAll(k) == \A l \in lookups : KeyOf(l) # k

\* no upsert for key k is still in flight
NoneInFlight(k) == \A r \in inflight : KeyOf(r) # k

\* C1: once every event received for a coordinate has been handled, and the
\* echoes of the local paints of that coordinate have been received, the Cell
\* Store's record for the coordinate is the one carried by the last event
\* received.
C1_LastReceivedWins ==
    \A k \in DOMAIN lastRecv :
        (HandledAll(k) /\ NoneInFlight(k))
            => (k \in DOMAIN pixels /\ Carried(pixels[k]) = Carried(lastRecv[k]))

\* every upsert has completed, every event has been delivered and handled,
\* hydration is over
Settled == inflight = {} /\ feed = << >> /\ lookups = {} /\ load = "done"

\* C2: once everything has settled, every cell whose record was last written
\* by a change event (no failed upsert and no hydration wrote it later) holds
\* the color of the store's last accepted write for that coordinate.
C2_Convergence ==
    Settled =>
        \A k \in (DOMAIN store) \cap (DOMAIN lastRecv) :
            k \in DOMAIN pixels /\ pixels[k].color = store[k].color

\* C3: every admitted paint lowers the tokens by exactly 1, hence the admitted
\* paints never outnumber the initial tokens plus the regeneration ticks.
C3_OneTokenPerPaint ==
    /\ [](admitted <= energy0 + ticks)
    /\ [][admitted' = admitted + 1 => energy' = energy - 1]_vars

\* C4: a paint attempt made while tokens = 0 is rejected: the tokens stay 0,
\* the Cell Store is not written and no upsert is dispatched.
C4_ExhaustedRejected ==
    [][(energy = 0 /\ MouseMove)
          => (energy' = 0 /\ pixels' = pixels /\ inflight' = inflight
              /\ admitted' = admitted)]_vars

\* C5: in every reachable state 0 <= tokens <= MAX_ENERGY, for the latest value
\* and for the value a render has captured.
C5_TokensInRange ==
    /\ 0 <= energy /\ energy <= MAX_ENERGY
    /\ 0 <= rEnergy /\ rEnergy <= MAX_ENERGY

\* two paints were admitted on one token: the floor at 0 kept the tokens at 0
C5_Witness ==
    energy0 = 1 /\ ticks = 0 /\ admitted = 2 /\ energy = 0

\* C6: within one stroke a paint attempt on a coordinate already painted in
\* that stroke is not admitted, so one stroke spends at most one token, writes
\* the Cell Store at most once and dispatches at most one upsert per cell.
C6_OncePerStroke ==
    [][\A p \in Pointers :
          (handleMouseMove(p) /\ getPixelCoords(p) \in paintedThisStroke)
              => (admitted' = admitted /\ energy' = energy /\ pixels' = pixels
                  /\ inflight' = inflight)]_vars

\* C7: the start and the end of a stroke leave the painted set empty, no
\* painted set outlives its stroke, and a coordinate painted before the
\* stroke began is admitted again in it when tokens are left, spending one.
C7_StrokeResets ==
    /\ [](~isDrawing => (paintedThisStroke = {} /\ rPainted = {}))
    /\ [][(handleMouseDown("draw") \/ handleMouseUp)
             => (paintedThisStroke' = {} /\ rPainted' = {})]_vars
    /\ [](\A p \in Pointers :
             ( /\ isDrawing /\ ~isPanning
               /\ paintedThisStroke = {} /\ rPainted = {}
               /\ getPixelCoords(p) \in DOMAIN pixels
               /\ energy >= 1 /\ rEnergy >= 1 )
                 => ENABLED ( /\ handleMouseMove(p)
                              /\ admitted' = admitted + 1
                              /\ energy' = energy - 1
                              /\ paintedThisStroke' = { getPixelCoords(p) } ))

\* cell (0,0) was painted, a render captured that paint, and the same cell was
\* admitted again: the painted set was reset by a stroke boundary in between
C7_Witness ==
    /\ admitted = 2 /\ ticks = 0
    /\ DOMAIN pixels = { << 0, 0 >> }
    /\ paintedThisStroke = { << 0, 0 >> }
    /\ energy0 >= 2 /\ energy = energy0 - 2
    /\ rEnergy = energy + 1

\* the pointer maps to a coordinate with x or y outside [0, CANVAS_SIZE)
MapsOutside(p) ==
    \/ PixelX(p) < 0 \/ PixelX(p) >= CANVAS_SIZE
    \/ PixelY(p) < 0 \/ PixelY(p) >= CANVAS_SIZE

\* C8: a pointer position that maps outside the grid changes neither the Cell
\* Store, nor the tokens, nor the painted set, and sends no upsert.
C8_OutOfRangeRejected ==
    [][\A p \in Pointers :
          (MapsOutside(p) /\ handleMouseMove(p))
              => UNCHANGED << pixels, energy, paintedThisStroke, inflight, store,
                              feed, admitted >>]_vars

\* a stroke is under way with tokens left, where an in-range pointer would be
\* admitted, and the pointer set holds positions on both sides of the grid
C8_Witness ==
    /\ isDrawing /\ ~isPanning /\ energy >= 1 /\ rEnergy >= 1
    /\ admitted >= 1 /\ admitted < MaxPaints
    /\ \E p \in Pointers : PixelX(p) < 0
    /\ \E p \in Pointers : PixelY(p) >= CANVAS_SIZE

\* C9: every record of the Cell Store has 0 <= x < CANVAS_SIZE and
\* 0 <= y < CANVAS_SIZE.
C9_StoredInRange ==
    \A k \in DOMAIN pixels :
        /\ 0 <= pixels[k].x /\ pixels[k].x < CANVAS_SIZE
        /\ 0 <= pixels[k].y /\ pixels[k].y < CANVAS_SIZE

\* C10: k ticks after the last admitted paint (or the start) left t tokens,
\* the tokens are min(MAX_ENERGY, t + k).
C10_Regeneration ==
    energy = Min(MAX_ENERGY, refillFrom + refillTicks)

\* 5 tokens below capacity after a paint, then 3 ticks: 18 tokens
C10_Witness ==
    /\ admitted >= 1 /\ refillFrom = MAX_ENERGY - 5 /\ refillTicks = 3
    /\ energy = 18

\* The Cell Store and its writers once hydration has completed on an empty
\* store, for an actor with a profile: strokes, upserts, writes of other
\* actors and the change feed.
StrokeStart == handleMouseDown("draw")

NextSync ==
    \/ StrokeStart \/ Render \/ BoundedMouseMove \/ MouseUp
    \/ UpsertAck \/ UpsertFail \/ BoundedRemoteWrite \/ Deliver \/ LookupResolve

InitSync ==
    /\ pixels = EmptyMap
    /\ energy = MAX_ENERGY
    /\ rEnergy = MAX_ENERGY
    /\ paintedThisStroke = {}
    /\ rPainted = {}
    /\ isDrawing = FALSE
    /\ isPanning = FALSE
    /\ userProfile = Me
    /\ now = 1
    /\ store = EmptyMap
    /\ inflight = {}
    /\ feed = << >>
    /\ lookups = {}
    /\ load = "done"
    /\ snapshot = EmptyMap
    /\ admitted = 0
    /\ ticks = 0
    /\ remotes = 0
    /\ energy0 = MAX_ENERGY
    /\ refillFrom = MAX_ENERGY
    /\ refillTicks = 0
    /\ lastRecv = EmptyMap
    /\ selectedColor = LocalColor
    /\ clock = 0
    /\ nextTick = ENERGY_REGEN_MS
    /\ mounted = TRUE
    /\ pendingPixel = << >>
    /\ placedPending = 0

SpecSync == InitSync /\ [][NextSync]_vars

\* The session under its scheduling: the interval timer keeps firing while the
\* component is mounted, and React renders every pending update.
SpecSessionFair == SpecSession /\ WF_vars(SessionTick) /\ WF_vars(Render)

\* the records of a map, reduced to the fields a row of the store carries
CarriedAll(m) == [ k \in DOMAIN m |-> Carried(m[k]) ]

\* C11: the step in which loadPixels completes with the rows of a snapshot
\* leaves in the Cell Store exactly one record per row, with the row's
\* coordinate, color, placed_at and user_id, and no other record.
C11_HydrationRoundTrip ==
    [][(load = "read" /\ load' = "done" /\ pixels' # pixels)
          => CarriedAll(pixels') = CarriedAll(snapshot)]_vars

\* hydration has completed on a snapshot of two rows whose change events are
\* both still undelivered, and no paint was made: the records are the snapshot's
C11_Witness ==
    /\ load = "done" /\ admitted = 0 /\ Len(feed) = 2 /\ lookups = {}
    /\ Cardinality(DOMAIN pixels) = 2
    /\ CarriedAll(pixels) = CarriedAll(store)

\* C12: every record of the Cell Store is stored under the key of its own
\* coordinate, hence at most one record per coordinate.
C12_OneRecordPerCoordinate ==
    \A k \in DOMAIN pixels : Key(pixels[k].x, pixels[k].y) = k

\* the Cell Store holds a record put by hydration or a remote event and a
\* record put by an optimistic paint, at different coordinates
C12_Witness ==
    /\ Cardinality(DOMAIN pixels) = 2
    /\ \E k \in DOMAIN pixels : pixels[k].placed_at = RemoteTime(1)
    /\ \E k \in DOMAIN pixels : pixels[k].placed_at = LocalTime(1)

\* the record under key k is removed or replaced in this step
Changed(k) == k \notin DOMAIN pixels' \/ pixels'[k] # pixels[k]

\* this step puts under key k the record of a change event that was waiting
\* in the feed or for its profile lookup
PutByEvent(k) ==
    /\ k \in DOMAIN pixels'
    /\ \/ \E i \in DOMAIN feed :
              KeyOf(feed[i].new) = k /\ Carried(pixels'[k]) = Carried(feed[i].new)
       \/ \E l \in lookups : KeyOf(l) = k /\ Carried(pixels'[k]) = Carried(l)

\* this step admits a local paint of key k
PutByPaint(k) == admitted' = admitted + 1 /\ k \in paintedThisStroke'

\* the record under key k is an optimistic record whose upsert is over and
\* whose write the store does not hold and no pending event carries
Unconfirmed(k) ==
    /\ pixels[k].placed_at[1] = "local"
    /\ \A r \in inflight : r.placed_at # pixels[k].placed_at
    /\ (k \in DOMAIN store => store[k].placed_at # pixels[k].placed_at)
    /\ \A i \in DOMAIN feed : feed[i].new.placed_at # pixels[k].placed_at
    /\ \A l \in lookups : l.placed_at # pixels[k].placed_at

\* C13: a step that ends an upsert without the store accepting it changes
\* neither the Cell Store nor the tokens and issues no upsert; afterwards
\* the optimistic record changes only in a step that puts a remote event for
\* its coordinate or admits a local paint of it.
C13_FailedUpsertKeepsRecord ==
    /\ [][(inflight' # inflight /\ inflight' \subseteq inflight /\ store' = store)
             => (pixels' = pixels /\ energy' = energy /\ feed' = feed)]_vars
    /\ [][\A k \in DOMAIN pixels :
             (Unconfirmed(k) /\ Changed(k)) => (PutByEvent(k) \/ PutByPaint(k))]_vars

\* C14: a step that admits a paint issues exactly one upsert, no other step
\* issues one, and the end of a stroke leaves the upserts in flight and the
\* external store as they are.
C14_OneUpsertPerPaint ==
    /\ [][admitted' = admitted + 1
             => (inflight \subseteq inflight'
                 /\ Cardinality(inflight') = Cardinality(inflight) + 1)]_vars
    /\ [][admitted' = admitted => inflight' \subseteq inflight]_vars
    /\ [][(isDrawing /\ ~isDrawing') => (inflight' = inflight /\ store' = store)]_vars

\* a stroke that admitted two paints has ended with both upserts in flight
C14_Witness ==
    ~isDrawing /\ admitted = 2 /\ Cardinality(inflight) = 2

\* C15: in the step that issues the upsert of a paint the Cell Store already
\* holds the paint's optimistic record, so no upsert ends before its put.
C15_OptimisticBeforeOutcome ==
    [][\A r \in inflight' \ inflight :
          /\ KeyOf(r) \in DOMAIN pixels'
          /\ Carried(pixels'[KeyOf(r)]) = Carried(r)]_vars

\* the upsert of a paint has been accepted by the store, and the Cell Store
\* holds the paint's optimistic record
C15_Witness ==
    /\ admitted = 1 /\ inflight = {} /\ remotes = 0
    /\ \E k \in DOMAIN store :
           k \in DOMAIN pixels /\ Carried(pixels[k]) = Carried(store[k])

\* C16: while upserts are in flight, a paint attempt of a stroke on an
\* in-range cell not yet painted in it, with tokens left, is admitted, written
\* to the Cell Store and dispatched.
C16_PendingUpsertDoesNotBlock ==
    \A p \in Pointers :
        ( /\ inflight # {}
          /\ isDrawing /\ ~isPanning
          /\ getPixelCoords(p) # << >>
          /\ getPixelCoords(p) \notin (paintedThisStroke \cup rPainted)
          /\ energy >= 1 /\ rEnergy >= 1 )
            => ENABLED ( /\ handleMouseMove(p)
                         /\ admitted' = admitted + 1
                         /\ getPixelCoords(p) \in DOMAIN pixels'
                         /\ pixels'[getPixelCoords(p)].placed_at = LocalTime(now)
                         /\ inflight \subseteq inflight'
                         /\ Cardinality(inflight') = Cardinality(inflight) + 1 )

\* a second cell was painted in a stroke while the upsert of the first was
\* still in flight
C16_Witness ==
    /\ isDrawing /\ admitted = 2 /\ Cardinality(inflight) = 2
    /\ Cardinality(DOMAIN pixels) = 2

\* C17: no upsert request carries a timestamp read from the client's clock,
\* and no row accepted by the external store has one as its placed_at.
C17_PlacedAtAssignedByStore ==
    /\ \A r \in inflight : r.placed_at[1] # "local"
    /\ \A k \in DOMAIN store : store[k].placed_at[1] # "local"

\* the optimistic record a paint at pointer position p would put
Optimistic(p) ==
    Pixel(getPixelCoords(p)[1], getPixelCoords(p)[2], selectedColor, LocalTime(now),
          userProfile, UserName(userProfile))

\* the pixelData of a handler whose profile lookup has resolved
Resolved(l, found) == IF found THEN [ l EXCEPT !.username = UserName(l.user_id) ] ELSE l

\* the records that pending operations would put: change events waiting in
\* the feed or for their lookup, and paints at the in-range pointer positions
Puts ==
    { feed[i].new : i \in DOMAIN feed } \cup lookups
        \cup { Optimistic(p) : p \in { q \in Pointers : getPixelCoords(q) # << >> } }

\* C18: two pending puts to different coordinates give the same Cell Store in
\* either order, each record being kept by the other put; and a step that puts
\* a record leaves the records of every other coordinate as they are.
C18_PutsCommute ==
    /\ [](\A a, b \in Puts :
             KeyOf(a) # KeyOf(b)
                 => /\ PutPixel(PutPixel(pixels, a), b) = PutPixel(PutPixel(pixels, b), a)
                    /\ PutPixel(PutPixel(pixels, a), b)[KeyOf(a)] = a
                    /\ PutPixel(PutPixel(pixels, a), b)[KeyOf(b)] = b)
    /\ [][(load' = load /\ pixels' # pixels)
             => \E k \in DOMAIN pixels' : pixels' = MapSet(pixels, k, pixels'[k])]_vars

\* a remote event and an optimistic paint put records at different
\* coordinates, the paint not yet rendered
C18_Witness ==
    /\ Cardinality(DOMAIN pixels) = 2 /\ rEnergy # energy
    /\ \E k \in DOMAIN pixels : pixels[k].placed_at[1] = "remote"
    /\ \E k \in DOMAIN pixels : pixels[k].placed_at[1] = "local"

C20_TokensFrame ==
    /\ [][energy' < energy => admitted' = admitted + 1]_vars
    /\ [][energy' > energy => ticks' = ticks + 1]_vars
    /\ [][(admitted' = admitted /\ ticks' = ticks) => energy' = energy]_vars

\* one paint was admitted and its stroke has ended, its upsert has completed,
\* a remote event was handled and hydration is over: one token is spent
C20_Witness ==
    /\ admitted = 1 /\ remotes = 1 /\ ticks = 0
    /\ ~isDrawing /\ Settled
    /\ energy = MAX_ENERGY - 1

\* a paint attempt of a stroke at pointer position p is admitted
AdmitsAt(p) == ENABLED (handleMouseMove(p) /\ admitted' = admitted + 1)

\* tokens are left, in the latest and in the rendered value, and within a
\* stroke every in-range cell not yet painted in it is admitted
Recovered ==
    /\ energy >= 1 /\ rEnergy >= 1
    /\ (isDrawing /\ ~isPanning)
          => \A p \in Pointers :
                 ( /\ getPixelCoords(p) # << >>
                   /\ getPixelCoords(p) \notin (paintedThisStroke \cup rPainted) )
                     => AdmitsAt(p)

\* C21: with the timer firing and renders happening, every state with 0 tokens
\* (the timer still having ticks left in the run) is followed by a state with
\* tokens left in which a paint attempt on an unpainted in-range cell is admitted.
C21_ExhaustionRecovers ==
    (energy = 0 /\ ticks < MaxTicks) ~> Recovered

\* the tokens were all spent by a paint, a tick gave one back and a render
\* captured it within a stroke
C21_Witness ==
    /\ energy0 = 1 /\ admitted = 1 /\ ticks = 1 /\ energy = 1 /\ rEnergy = 1
    /\ isDrawing /\ ~isPanning /\ rPainted = paintedThisStroke

\* C22: a paint attempt of a stroke made while the tokens are 0 leaves its
\* coordinate in the painted set of the stroke, so that a later attempt on it
\* in the same stroke is deduplicated.
C22_AttemptRecorded ==
    \A p \in Pointers :
        ( /\ isDrawing /\ ~isPanning
          /\ getPixelCoords(p) # << >>
          /\ energy = 0 /\ rEnergy = 0 )
            => ENABLED ( /\ handleMouseMove(p)
                         /\ getPixelCoords(p) \in paintedThisStroke' )

\* C25: hydration does not discard what arrived while the snapshot was being
\* read: when the snapshot is applied, every record the Cell Store holds at a
\* coordinate the snapshot has no row for is still there, unchanged.
C25_HydrationKeepsConcurrent ==
    [][ (load = "read" /\ load' = "done")
          => \A k \in DOMAIN pixels :
                 k \notin { Key(snapshot[j].x, snapshot[j].y) : j \in DOMAIN snapshot }
                     => (k \in DOMAIN pixels' /\ pixels'[k] = pixels[k]) ]_vars

\* C26: no update of the budget is lost.  Between two renders (rEnergy is the
\* count at the last one, 1 <= rEnergy < capacity) a tick that follows an
\* admitted paint, and an admitted paint that follows a tick, both bring the
\* tokens back to rEnergy: each applies to the latest value.
C26_NoLostBudgetUpdate ==
    [][ (1 <= rEnergy /\ rEnergy < MAX_ENERGY /\ rEnergy' = rEnergy)
          => /\ (energy = rEnergy - 1 /\ ticks' = ticks + 1)
                    => energy' = rEnergy
             /\ (energy = rEnergy + 1 /\ admitted' = admitted + 1)
                    => energy' = rEnergy ]_vars

\* a paint and then a tick have happened since the last render (the painted
\* set is not rendered yet), and the tokens are what they were
C26_Witness ==
    /\ admitted = 1 /\ ticks = 1 /\ refillTicks = 1
    /\ rEnergy = energy0 /\ energy = rEnergy
    /\ 1 <= rEnergy /\ rEnergy < MAX_ENERGY
    /\ rPainted # paintedThisStroke

\* what a paint writes: the Cell Store, the tokens, the painted set, the
\* upserts in flight
PaintEffects == << pixels, energy, paintedThisStroke, inflight >>

Elapse ==
    /\ clock + (ENERGY_REGEN_MS \div 2) < nextTick
    /\ clock' = clock + (ENERGY_REGEN_MS \div 2)
    /\ UNCHANGED << nextTick, extVars, uiVars, netVars, budgetHist >>
    /\ UNCHANGED << pixels, userProfile, now, admitted, ticks, remotes, lastRecv >>

NextTimer ==
    \/ Elapse \/ SessionTick \/ Render \/ MouseDown \/ SessionMouseMove \/ MouseUp

\* a session at or one token below capacity
InitNearCapacity == InitSpent /\ energy >= MAX_ENERGY - 1

SpecTimer == InitNearCapacity /\ [][NextTimer]_vars

SelectColor ==
    \E color \in Colors \ { selectedColor } :
        /\ selectedColor' = color
        /\ UNCHANGED << mounted, pendingPixel, placedPending >>
        /\ UNCHANGED << pixels, userProfile, now, admitted, ticks, remotes, lastRecv >>
        /\ UNCHANGED << uiVars, netVars, budgetHist, timerVars >>

\* the storage listener of useUserProfile: the profile is saved or cleared
handleStorage ==
    \E profile \in { NoUser, Me } \ { userProfile } :
        /\ userProfile' = profile
        /\ UNCHANGED << pixels, now, admitted, ticks, remotes, lastRecv >>
        /\ UNCHANGED << uiVars, netVars, budgetHist, timerVars, extVars >>

NextPalette ==
    \/ StrokeStart \/ Render \/ BoundedMouseMove \/ MouseUp
    \/ SelectColor \/ handleStorage \/ UpsertAck \/ UpsertFail

SpecPalette == InitSync /\ [][NextPalette]_vars

\* C24: the step that admits a paint puts in the Cell Store a record whose
\* color and user_id are those of the upsert it sends, and for an anonymous
\* actor both carry none; a change of the selected color or of the profile
\* alters neither the upserts in flight nor the Cell Store, and the row the
\* store accepts is the row that was sent.
C24_RecordMatchesUpsert ==
    /\ [][ (admitted' = admitted + 1)
              => \E r \in inflight' \ inflight :
                     /\ inflight' = inflight \cup { r }
                     /\ KeyOf(r) \in DOMAIN pixels'
                     /\ pixels'[KeyOf(r)].color = r.color
                     /\ pixels'[KeyOf(r)].user_id = r.user_id
                     /\ (userProfile = NoUser) <=> (r.user_id = NoUser) ]_vars
    /\ [][ (selectedColor' # selectedColor \/ userProfile' # userProfile)
              => (inflight' = inflight /\ pixels' = pixels) ]_vars
    /\ [][ \A k \in DOMAIN store' :
               (k \notin DOMAIN store \/ store'[k] # store[k])
                   => store'[k] \in inflight ]_vars

\* an anonymous paint is in flight, its record is in the Cell Store with the
\* color and (absent) user_id of its upsert, and both the selected color and
\* the profile have changed since
C24_Witness ==
    \E r \in inflight :
        /\ r.user_id = NoUser /\ userProfile # NoUser
        /\ r.color # selectedColor
        /\ KeyOf(r) \in DOMAIN pixels
        /\ pixels[KeyOf(r)].color = r.color
        /\ pixels[KeyOf(r)].user_id = r.user_id

\* ---- session end -------------------------------------------------------------------
\* the component unmounts: the cleanup of the regeneration effect clears the
\* interval; the mount effect returns no cleanup, so the function returned by
\* subscribeToPixels (removeChannel) is dropped and never runs
Unmount ==
    /\ mounted
    /\ mounted' = FALSE
    /\ UNCHANGED << selectedColor, pendingPixel, placedPending >>
    /\ UNCHANGED << pixels, userProfile, now, admitted, ticks, remotes, lastRecv >>
    /\ UNCHANGED << uiVars, netVars, budgetHist, timerVars >>

NextLifecycle ==
    \/ Unmount \/ BoundedTick \/ BoundedRemoteWrite \/ Deliver
    \/ LookupResolve \/ LoadQuery \/ LoadResolve

SpecLifecycle == Init /\ [][NextLifecycle]_vars

\* C27: session end stops every mutation: once the component is unmounted no
\* tick happens and the tokens stay, the Cell Store stays, and the change
\* handler is no longer called: no event is taken from the feed and no profile
\* lookup is started.
C27_UnmountStopsMutation ==
    [][ ~mounted
          => /\ ticks' = ticks /\ energy' = energy
             /\ pixels' = pixels
             /\ Len(feed') >= Len(feed)
             /\ lookups' \subseteq lookups ]_vars

\* ---- deletions at the external store ------------------------------------------------
\* a row is deleted at the store (by another client or an administrator); the
\* table publishes DELETE, whose payload.new is empty
RemoteDelete ==
    \E k \in DOMAIN store :
        /\ store' = MapRemove(store, k)
        /\ feed' = Append(feed, [ eventType |-> "DELETE", new |-> EmptyMap,
                                  old |-> [ x |-> store[k].x, y |-> store[k].y ] ])
        /\ remotes' = remotes + 1
        /\ UNCHANGED << pixels, userProfile, now, inflight, lookups, load,
                        snapshot, admitted, ticks, lastRecv >>
        /\ UNCHANGED << uiVars, budgetHist, timerVars, extVars >>

BoundedRemoteDelete == RemoteDelete /\ Events' <= MaxEvents

NextFeed ==
    \/ BoundedRemoteWrite \/ BoundedRemoteDelete \/ Deliver \/ LookupResolve

SpecFeed == InitSync /\ [][NextFeed]_vars

\* C28: only INSERT and UPDATE events modify the Cell Store.  The step in
\* which the handler receives an event of another type (DELETE) changes no
\* record and starts no lookup; no step removes a record; and every record a
\* step writes carries the row of an INSERT or UPDATE event, handed over in
\* that step or waiting for its profile lookup.
C28_OnlyUpsertEventsModify ==
    /\ [][ \A i \in DOMAIN feed :
               ( /\ feed[i].eventType \notin { "INSERT", "UPDATE" }
                 /\ Deliverable(i)
                 /\ feed' = RemoveAt(feed, i) )
                   => (pixels' = pixels /\ lookups' = lookups) ]_vars
    /\ [][ \A k \in DOMAIN pixels : k \in DOMAIN pixels' ]_vars
    /\ [][ \A k \in DOMAIN pixels' :
               (k \notin DOMAIN pixels \/ pixels'[k] # pixels[k])
                   => \/ \E l \in lookups : Carried(pixels'[k]) = Carried(l)
                      \/ \E i \in DOMAIN feed :
                             /\ feed[i].eventType \in { "INSERT", "UPDATE" }
                             /\ feed' = RemoveAt(feed, i)
                             /\ Carried(pixels'[k]) = Carried(feed[i].new) ]_vars

\* a cell written and then deleted at the store: every event has been handled
\* and the Cell Store still holds the record of the deleted cell
C28_Witness ==
    /\ feed = << >> /\ lookups = {} /\ remotes = 2
    /\ \E k \in DOMAIN pixels : k \notin DOMAIN store

\* ---- the click-to-place variant ------------------------------------------------------
\* handleCanvasClick: a click inside the grid makes its cell the pending pixel
\* and opens the color dialog
handleCanvasClick(p) ==
    IF getPixelCoords(p) # << >>
    THEN /\ pendingPixel' = getPixelCoords(p)
         /\ placedPending' = 0
         /\ UNCHANGED << selectedColor, mounted >>
         /\ UNCHANGED << pixels, userProfile, now, admitted, ticks, remotes, lastRecv >>
         /\ UNCHANGED << uiVars, netVars, budgetHist, timerVars >>
    ELSE UNCHANGED vars

\* placePixel (the Place button) up to its await; the click is a discrete
\* event, rendered before the next one is handled
placePixel ==
    IF pendingPixel = << >> \/ rEnergy < 1
    THEN UNCHANGED vars
    ELSE /\ pixels' = MapSet(pixels, Key(pendingPixel[1], pendingPixel[2]),
                             Pixel(pendingPixel[1], pendingPixel[2], selectedColor,
                                   LocalTime(now), NoUser, NoName))
         /\ energy' = Consume(energy)
         /\ rEnergy' = energy'
         /\ inflight' = inflight \cup { Pixel(pendingPixel[1], pendingPixel[2],
                                              selectedColor, LocalTime(now),
                                              NoUser, NoName) }
         /\ now' = now + 1
         /\ admitted' = admitted + 1
         /\ placedPending' = placedPending + 1
         /\ UNCHANGED << selectedColor, mounted, pendingPixel >>
         /\ UNCHANGED << paintedThisStroke, rPainted, isDrawing, isPanning >>
         /\ UNCHANGED << userProfile, ticks, remotes, lastRecv >>
         /\ UNCHANGED << store, feed, lookups, load, snapshot >>
         /\ UNCHANGED << budgetHist, timerVars >>

\* placePixel after its await: the upsert has been accepted or has failed
\* (the result is not read), and the dialog is closed
placePixelSettled ==
    \E r \in inflight, ok \in BOOLEAN :
        /\ IF ok THEN StoreAccept(r) ELSE UNCHANGED << store, feed >>
        /\ inflight' = inflight \ { r }
        /\ pendingPixel' = << >>
        /\ UNCHANGED << selectedColor, mounted, placedPending >>
        /\ UNCHANGED << pixels, userProfile, now, admitted, ticks, remotes, lastRecv >>
        /\ UNCHANGED << lookups, load, snapshot >>
        /\ UNCHANGED << uiVars, budgetHist, timerVars >>

CanvasClick == \E p \in Pointers : handleCanvasClick(p)
BoundedPlace == placePixel /\ admitted' <= MaxPaints

NextClick ==
    \/ CanvasClick \/ BoundedPlace \/ placePixelSettled \/ SessionTick \/ Render

\* a session with few tokens left
InitFewTokens == InitSpent /\ energy <= 2

SpecClick == InitFewTokens /\ [][NextClick]_vars

\* C30: in the click-to-place variant a placement happens only with a pixel
\* pending and at least one token, the pending coordinate is inside the grid,
\* and one pending pixel is placed at most once (one store write, one token,
\* one upsert).
C30_OnePlacementPerPending ==
    /\ [][ (admitted' = admitted + 1)
              => (pendingPixel # << >> /\ rEnergy >= 1) ]_vars
    /\ [](pendingPixel # << >> => InRange(pendingPixel[1], pendingPixel[2]))
    /\ [](placedPending <= 1)

====
